---- MODULE Spec2Model ----
(***************************************************************************)
(* Model of the design-analysis pipeline: the five-stage run in its        *)
(* variants (hybrid, langchain, openai, agents), the DynamoDB status       *)
(* tracker and the callers that start a run and store its result.          *)
(*                                                                         *)
(* Abstractions.  A text is a sequence of lines and a line is one of a few *)
(* sample lines; the substring tests of the code are tabulated for those   *)
(* lines and for the fixed strings the code produces.  A record produced   *)
(* by the text-generation model carries a flag ok: whether it has, with a  *)
(* usable type, every field a later stage reads.  Timestamps are "NULL"    *)
(* or "TS".  Step messages carry no count.  uuid4 ids are fresh, so chunk  *)
(* ids are <<run, position>>.  The table and the result store answer every *)
(* request; a call of the text-generation model returns or fails.          *)
(***************************************************************************)
EXTENDS Integers, Sequences, FiniteSets, TLC

VARIABLES runs, table, store, opsLeft

vars == <<runs, table, store, opsLeft>>

(***************************************************************************)
(* Bounds                                                                  *)
(***************************************************************************)
\* longest input text, in lines
MaxLines == 2
\* number of tracker operations applied in the tracker specification
MaxOps == 3

(***************************************************************************)
(* Tracker: StepStatus, step names, records                                *)
(***************************************************************************)
PENDING == "pending"
PROCESSING == "processing"
COMPLETED == "completed"
FAILED == "failed"

StepStatus == {PENDING, PROCESSING, COMPLETED, FAILED}

StepNames == <<"chunking", "inferring", "relating", "explaining", "activating">>

Steps == {StepNames[i] : i \in 1..Len(StepNames)}

StepIndex(s) == CHOOSE i \in 1..Len(StepNames) : StepNames[i] = s

\* Python None for a request id or a path
None == "None"

RequestIds == {"req1", "req2"}

Paths == {"s3://research/a.txt"}

\* the key has no item in the table
NoRecord == [exists |-> FALSE]

InitialMessage(s) ==
    CASE s = "chunking" -> "Waiting to start chunking"
      [] s = "inferring" -> "Waiting for chunking to complete"
      [] s = "relating" -> "Waiting for inference to complete"
      [] s = "explaining" -> "Waiting for pattern analysis to complete"
      [] s = "activating" -> "Waiting for explanation to complete"

\* an item whose first step is put as already started
NewRecord_chunking_started(path) ==
    [exists |-> TRUE,
     research_data |-> path,
     result_data |-> "",
     overall_status |-> PENDING,
     steps_status |-> [s \in Steps |->
        [status |-> IF s = "chunking" THEN PROCESSING ELSE PENDING,
         message |-> InitialMessage(s),
         started_at |-> IF s = "chunking" THEN "TS" ELSE "NULL",
         completed_at |-> "NULL"]]]
\* the item create_analysis_request puts
NewRecord(path) ==
    [exists |-> TRUE,
     research_data |-> path,
     result_data |-> "",
     overall_status |-> PENDING,
     steps_status |-> [s \in Steps |->
        [status |-> PENDING, message |-> InitialMessage(s),
         started_at |-> "NULL", completed_at |-> "NULL"]]]

\* put_item has no condition expression: an existing item is replaced
create_analysis_request(t, id, path) ==
    [t EXCEPT ![id] = NewRecord(path)]

\* an update that stamps completed_at for a completed step only
StepAfter_failed_unstamped(old, status, message) ==
    [status |-> status,
     message |-> message,
     started_at |-> IF status = PROCESSING THEN "TS" ELSE old.started_at,
     completed_at |-> IF status = COMPLETED THEN "TS" ELSE old.completed_at]
\* the step entry after SET status, message and the timestamp of the status
StepAfter(old, status, message) ==
    [status |-> status,
     message |-> message,
     started_at |-> IF status = PROCESSING THEN "TS" ELSE old.started_at,
     completed_at |-> IF status \in {COMPLETED, FAILED} THEN "TS"
                      ELSE old.completed_at]

\* result_s3_path or ''
PathOrEmpty(p) == IF p = None THEN "" ELSE p

\* overall_status set by the completion of any step, not only the last
update_step_status_any_completed(t, id, step, status, message, result_s3_path) ==
    IF ~t[id].exists THEN t
    ELSE LET old == t[id]
             stepped == [old EXCEPT !.steps_status[step] =
                            StepAfter(old.steps_status[step], status, message)]
         IN IF status = COMPLETED
            THEN [t EXCEPT ![id] =
                    [stepped EXCEPT !.overall_status = COMPLETED,
                                    !.result_data = PathOrEmpty(result_s3_path)]]
            ELSE [t EXCEPT ![id] = stepped]
\* an update without the Key condition: every record of the table is updated
update_step_status_all_records(t, id, step, status, message, result_s3_path) ==
    [k \in DOMAIN t |->
        IF ~t[k].exists THEN t[k]
        ELSE LET stepped == [t[k] EXCEPT !.steps_status[step] =
                                StepAfter(t[k].steps_status[step], status, message)]
             IN IF step = "activating" /\ status = COMPLETED
                THEN [stepped EXCEPT !.overall_status = COMPLETED,
                                     !.result_data = PathOrEmpty(result_s3_path)]
                ELSE stepped]
\* update_item with a nested document path fails on a key that has no item
\* (the exception is caught and False returned): the table is unchanged
update_step_status(t, id, step, status, message, result_s3_path) ==
    IF ~t[id].exists THEN t
    ELSE LET old == t[id]
             stepped == [old EXCEPT !.steps_status[step] =
                            StepAfter(old.steps_status[step], status, message)]
         IN IF step = "activating" /\ status = COMPLETED
            THEN [t EXCEPT ![id] =
                    [stepped EXCEPT !.overall_status = COMPLETED,
                                    !.result_data = PathOrEmpty(result_s3_path)]]
            ELSE [t EXCEPT ![id] = stepped]

\* an update that also closes the request
update_result_data_marks_completed(t, id, result_s3_path) ==
    IF ~t[id].exists THEN t
    ELSE [t EXCEPT ![id].result_data = result_s3_path,
                   ![id].overall_status = COMPLETED]
\* SET analysis_result.result_data (and updated_at), nothing else
update_result_data(t, id, result_s3_path) ==
    IF ~t[id].exists THEN t
    ELSE [t EXCEPT ![id].result_data = result_s3_path]

\* convert_value: an attribute of type NULL becomes None, one of type S its
\* string, a map the map of its converted values
_dynamodb_to_dict(item) ==
    [item EXCEPT !.steps_status = [s \in Steps |->
        [item.steps_status[s] EXCEPT
            !.started_at = IF @ = "NULL" THEN None ELSE @,
            !.completed_at = IF @ = "NULL" THEN None ELSE @]]]

\* None (here NoRecord) when the key has no item
get_analysis_status(t, id) ==
    IF t[id].exists THEN _dynamodb_to_dict(t[id]) ELSE NoRecord

(***************************************************************************)
(* Texts, lines and the substring tests of the stage code                  *)
(***************************************************************************)
LineQuick == "I just want to get this done quickly."
LineCluttered == "The interface is cluttered."
\* the same line as a transcript indents it
LineIndented == "    The interface is cluttered."
LinePlain == "Users said \"it works\"."
LineEmpty == ""

Lines == {LineQuick, LineIndented, LinePlain, LineEmpty}

Texts == UNION {[1..n -> Lines] : n \in 1..MaxLines}

\* "" is the only empty text: "".split('\n') is ['']
IsEmptyText(text) == text = <<LineEmpty>>

\* line.strip()
Strip(line) == IF line = LineIndented THEN LineCluttered ELSE line

\* the words w of the code's tests with  w in content.lower()
WordsIn(content) ==
    CASE content = LineQuick -> {"quick", "ui"}
      [] content = LineCluttered -> {"cluttered", "interface"}
      [] content = LinePlain -> {"user", "\""}
      [] OTHER -> {}

MeaningSpeed == "Users prioritize speed and efficiency"
MeaningComplexity == "Users struggle with complexity"
MeaningSimplicity == "Users prefer simplicity"
MeaningDefault == "Users have specific needs and preferences"
\* a meaning the text-generation model may write
MeaningModel == "People want clear navigation"

\* the words w of relate_patterns' tests with  w in meaning.lower()
WordsInMeaning(m) ==
    CASE m = MeaningSpeed -> {"speed"}
      [] m = MeaningComplexity -> {"complex"}
      [] m = MeaningModel -> {"clear"}
      [] OTHER -> {}

PatternEfficiency == "User Efficiency Needs"
PatternClarity == "Information Clarity"
\* a pattern name the text-generation model may write
PatternModel == "Navigation Friction"
PatternUnknown == "Unknown Pattern"

HeadlineSpeed == "USERS PRIORITIZE SPEED OVER FEATURES"
HeadlineBarriers == "COMPLEXITY CREATES COGNITIVE BARRIERS"
\* a headline the text-generation model may write
HeadlineModel == "NAVIGATION HIDES THE GOAL"
HeadlineUnknown == "UNKNOWN INSIGHT"

PrincipleSpeed == "The system should prioritize speed and efficiency over feature complexity"
PrincipleClarity == "The experience must present information with maximum clarity and minimal cognitive load"
PrincipleModel == "The system should reduce navigation depth"

(***************************************************************************)
(* Sequence helpers                                                        *)
(***************************************************************************)
Range(s) == {s[i] : i \in 1..Len(s)}

RECURSIVE FlattenWords(_)
\* the words found in ' '.join(meanings).lower()
FlattenWords(meanings) ==
    IF meanings = <<>> THEN {}
    ELSE WordsInMeaning(Head(meanings)) \cup FlattenWords(Tail(meanings))

\* an id the text-generation model wrote that belongs to no record of the run
GhostId == [run |-> 0, n |-> 0]

(***************************************************************************)
(* Rule-based fallbacks (hybrid_agentic_analysis.py, agentic_analysis.py)  *)
(***************************************************************************)
\* [line.strip() for line in research_data.split('\n') if line.strip()]
NonBlankLines(text) ==
    LET kept == SelectSeq(text, LAMBDA l : Strip(l) # LineEmpty)
    IN [i \in 1..Len(kept) |-> Strip(kept[i])]

FallbackChunks(r, text) ==
    LET ls == NonBlankLines(text)
    IN [i \in 1..Len(ls) |->
          [id |-> [run |-> r, n |-> i],
           content |-> ls[i],
           type |-> IF "\"" \in WordsIn(ls[i]) THEN "quote" ELSE "observation",
           tags |-> IF "user" \in WordsIn(ls[i]) THEN <<"user_feedback">>
                    ELSE <<"general">>,
           ok |-> TRUE]]

\* the test for "cluttered" left out of the second rule
FallbackMeanings_no_cluttered(content) ==
    LET w == WordsIn(content)
        m == (IF w \cap {"quick", "fast"} # {} THEN <<MeaningSpeed>> ELSE <<>>)
             \o (IF "complex" \in w THEN <<MeaningComplexity>> ELSE <<>>)
             \o (IF "simple" \in w THEN <<MeaningSimplicity>> ELSE <<>>)
    IN IF m = <<>> THEN <<MeaningDefault>> ELSE m
\* the meanings the rules of the inference fallback give a chunk content
FallbackMeanings(content) ==
    LET w == WordsIn(content)
        m == (IF w \cap {"quick", "fast"} # {} THEN <<MeaningSpeed>> ELSE <<>>)
             \o (IF w \cap {"cluttered", "complex"} # {}
                 THEN <<MeaningComplexity>> ELSE <<>>)
             \o (IF "simple" \in w THEN <<MeaningSimplicity>> ELSE <<>>)
    IN IF m = <<>> THEN <<MeaningDefault>> ELSE m

\* the meanings list not started afresh for each chunk: a chunk's meanings
\* begin with those of the chunk before it
FallbackInferences_carries_over(chunks) ==
    [i \in 1..Len(chunks) |->
        [chunk_id |-> chunks[i].id,
         meanings |-> IF i = 1 THEN FallbackMeanings(chunks[i].content)
                      ELSE FallbackMeanings(chunks[i - 1].content)
                            \o FallbackMeanings(chunks[i].content),
         ok |-> TRUE]]
\* the inference fallback: one inference per chunk, from its content alone
FallbackInferences(chunks) ==
    [i \in 1..Len(chunks) |->
        [chunk_id |-> chunks[i].id,
         meanings |-> FallbackMeanings(chunks[i].content),
         ok |-> TRUE]]

\* the chunk_ids of a sequence of inferences, in order
ChunkIdsOf(infs) == [i \in 1..Len(infs) |-> infs[i].chunk_id]

FallbackPatterns(inferences) ==
    LET efficiency_inferences == ChunkIdsOf(SelectSeq(inferences,
            LAMBDA inf : FlattenWords(inf.meanings)
                            \cap {"speed", "efficient", "quick", "fast"} # {}))
        clarity_inferences == ChunkIdsOf(SelectSeq(inferences,
            LAMBDA inf : FlattenWords(inf.meanings)
                            \cap {"complex", "cluttered", "simple", "clear"} # {}))
    IN (IF efficiency_inferences # <<>>
        THEN <<[name |-> PatternEfficiency,
                related_inferences |-> efficiency_inferences,
                themes |-> <<"efficiency", "speed", "productivity">>,
                evidence_count |-> Len(efficiency_inferences),
                ok |-> TRUE]>>
        ELSE <<>>)
       \o (IF clarity_inferences # <<>>
           THEN <<[name |-> PatternClarity,
                   related_inferences |-> clarity_inferences,
                   themes |-> <<"clarity", "simplicity", "communication">>,
                   evidence_count |-> Len(clarity_inferences),
                   ok |-> TRUE]>>
           ELSE <<>>)

\* the words w of explain_insights' tests with  w in pattern['name'].lower()
WordsInName(name) ==
    CASE name = PatternEfficiency -> {"efficiency"}
      [] name = PatternClarity -> {"clarity"}
      [] OTHER -> {}

RECURSIVE FallbackInsights(_)
FallbackInsights(patterns) ==
    IF patterns = <<>> THEN <<>>
    ELSE LET pattern == Head(patterns)
             w == WordsInName(pattern.name)
         IN (IF "efficiency" \in w
             THEN <<[headline |-> HeadlineSpeed, pattern_id |-> pattern.name,
                     non_consensus |-> TRUE, ok |-> TRUE]>>
             ELSE IF "clarity" \in w
             THEN <<[headline |-> HeadlineBarriers, pattern_id |-> pattern.name,
                     non_consensus |-> FALSE, ok |-> TRUE]>>
             ELSE <<>>)
            \o FallbackInsights(Tail(patterns))

\* the phrases of activate_design_principles' tests found in a headline
PhrasesInHeadline(h) ==
    CASE h = HeadlineSpeed -> {"SPEED OVER FEATURES"}
      [] h = HeadlineBarriers -> {"COGNITIVE BARRIERS"}
      [] OTHER -> {}

RECURSIVE FallbackPrinciples(_)
FallbackPrinciples(insights) ==
    IF insights = <<>> THEN <<>>
    ELSE LET insight == Head(insights)
             ph == PhrasesInHeadline(insight.headline)
         IN (IF "SPEED OVER FEATURES" \in ph
             THEN <<[principle |-> PrincipleSpeed,
                     insight_id |-> insight.headline]>>
             ELSE IF "COGNITIVE BARRIERS" \in ph
             THEN <<[principle |-> PrincipleClarity,
                     insight_id |-> insight.headline]>>
             ELSE <<>>)
            \o FallbackPrinciples(Tail(insights))

(***************************************************************************)
(* What the text-generation call can answer.  A reply is a failed call, a  *)
(* text that does not parse as JSON, or a parsed list: empty, one record   *)
(* per predecessor with the predecessor's key, one record that refers to   *)
(* nothing of the run, or one record that lacks fields.                    *)
(***************************************************************************)
CallError == [kind |-> "call_error", value |-> <<>>]
ParseError == [kind |-> "parse_error", value |-> <<>>]
Parsed(v) == [kind |-> "parsed", value |-> v]

ModelChunks(text) ==
    LET ls == NonBlankLines(text)
    IN {<<>>,
        [i \in 1..Len(ls) |->
            [id |-> [run |-> 0, n |-> i], content |-> ls[i],
             type |-> "quote", tags |-> <<"general">>, ok |-> TRUE]],
        <<[id |-> GhostId, content |-> LineEmpty,
           type |-> "quote", tags |-> <<"general">>, ok |-> FALSE]>>}

ModelInferences(chunks) ==
    {<<>>,
     [i \in 1..Len(chunks) |->
        [chunk_id |-> chunks[i].id, meanings |-> <<MeaningModel>>, ok |-> TRUE]],
     <<[chunk_id |-> GhostId, meanings |-> <<MeaningModel>>, ok |-> TRUE]>>,
     <<[chunk_id |-> GhostId, meanings |-> <<>>, ok |-> FALSE]>>}

ModelPatterns(inferences) ==
    {<<>>,
     IF inferences = <<>> THEN <<>>
     ELSE <<[name |-> PatternModel,
             related_inferences |-> ChunkIdsOf(inferences),
             themes |-> <<"navigation">>,
             evidence_count |-> Len(inferences), ok |-> TRUE]>>,
     <<[name |-> PatternModel, related_inferences |-> <<GhostId>>,
        themes |-> <<"navigation">>, evidence_count |-> 1, ok |-> TRUE]>>,
     <<[name |-> PatternModel, related_inferences |-> <<>>,
        themes |-> <<>>, evidence_count |-> 0, ok |-> FALSE]>>}

ModelInsights(patterns) ==
    {<<>>,
     [i \in 1..Len(patterns) |->
        [headline |-> HeadlineModel, pattern_id |-> patterns[i].name,
         non_consensus |-> TRUE, ok |-> TRUE]],
     <<[headline |-> HeadlineModel, pattern_id |-> PatternUnknown,
        non_consensus |-> TRUE, ok |-> TRUE]>>,
     <<[headline |-> HeadlineModel, pattern_id |-> PatternUnknown,
        non_consensus |-> TRUE, ok |-> FALSE]>>}

ModelPrinciples(insights) ==
    {<<>>,
     [i \in 1..Len(insights) |->
        [principle |-> PrincipleModel, insight_id |-> insights[i].headline]],
     <<[principle |-> PrincipleModel, insight_id |-> HeadlineUnknown]>>}

StageNames == <<"chunk", "infer", "relate", "explain", "activate">>

Stages == {StageNames[i] : i \in 1..Len(StageNames)}

StageIndex(stage) == CHOOSE i \in 1..Len(StageNames) : StageNames[i] = stage

\* the replies the call of a stage can get in the run state st
Replies(stage, st) ==
    {CallError, ParseError} \cup
    {Parsed(v) : v \in
        CASE stage = "chunk" -> ModelChunks(st.research_data)
          [] stage = "infer" -> ModelInferences(st.chunks)
          [] stage = "relate" -> ModelPatterns(st.inferences)
          [] stage = "explain" -> ModelInsights(st.patterns)
          [] stage = "activate" -> ModelPrinciples(st.insights)}

(***************************************************************************)
(* Stage functions.  A stage returns its list (and the path that made it)  *)
(* or raises.                                                              *)
(***************************************************************************)
Ok(out, via) == [raised |-> FALSE, error |-> "none", out |-> out, via |-> via]

Raise(err) == [raised |-> TRUE, error |-> err, out |-> <<>>, via |-> "none"]

\* the list a stage reads to build its prompt
Predecessor(stage, st) ==
    CASE stage = "chunk" -> <<>>
      [] stage = "infer" -> st.chunks
      [] stage = "relate" -> st.inferences
      [] stage = "explain" -> st.patterns
      [] stage = "activate" -> st.insights

\* the prompt of a stage indexes the fields of every predecessor record:
\* a record that lacks one of them raises KeyError (TypeError)
PromptRaises(stage, st) ==
    \E i \in 1..Len(Predecessor(stage, st)) : ~Predecessor(stage, st)[i].ok

Fallback(stage, r, st) ==
    CASE stage = "chunk" -> FallbackChunks(r, st.research_data)
      [] stage = "infer" -> FallbackInferences(st.chunks)
      [] stage = "relate" -> FallbackPatterns(st.inferences)
      [] stage = "explain" -> FallbackInsights(st.patterns)
      [] stage = "activate" -> FallbackPrinciples(st.insights)

\* hybrid: the call and the parse are inside try, and except Exception
\* takes the fallback; only the prompt is built outside
\* chunk_research_data sets chunk.id on each parsed chunk, a dict: the
\* AttributeError is caught, so a non-empty parsed list takes the fallback
HybridStage(stage, r, st, reply) ==
    IF PromptRaises(stage, st) THEN Raise("KeyError")
    ELSE IF reply.kind = "parsed" /\ (stage # "chunk" \/ reply.value = <<>>)
         THEN Ok(reply.value, "primary")
         ELSE Ok(Fallback(stage, r, st), "fallback")

\* langchain (agentic_analysis.py): llm.invoke is outside try
LangchainStage(stage, r, st, reply) ==
    IF PromptRaises(stage, st) THEN Raise("KeyError")
    ELSE IF reply.kind = "call_error" THEN Raise("call")
    ELSE IF reply.kind = "parsed" THEN Ok(reply.value, "primary")
    ELSE Ok(Fallback(stage, r, st), "fallback")

\* chunk_data["id"] = f"chunk_{uuid.uuid4().hex[:8]}"
WithFreshIds(r, chunks) ==
    [i \in 1..Len(chunks) |-> [chunks[i] EXCEPT !.id = [run |-> r, n |-> i]]]

\* openai: no try at all; json.loads of the tool-call arguments may raise
OpenAIStage(stage, r, st, reply) ==
    IF PromptRaises(stage, st) THEN Raise("KeyError")
    ELSE IF reply.kind = "call_error" THEN Raise("call")
    ELSE IF reply.kind = "parse_error" THEN Raise("parse")
    ELSE IF stage = "chunk" THEN Ok(WithFreshIds(r, reply.value), "primary")
    ELSE Ok(reply.value, "primary")

(***************************************************************************)
(* design_analysis_agents.py: the agents compute every list themselves     *)
(***************************************************************************)
_determine_chunk_type(content) ==
    IF "\"" \in WordsIn(content) THEN "quote" ELSE "pain_point"

_extract_tags(content) ==
    IF WordsIn(content) \cap {"interface", "ui", "design"} # {}
    THEN <<"interface_related">> ELSE <<>>

ChunkingAgent(r, text) ==
    LET ls == NonBlankLines(text)
    IN [i \in 1..Len(ls) |->
          [id |-> [run |-> r, n |-> i], content |-> ls[i],
           type |-> _determine_chunk_type(ls[i]),
           tags |-> _extract_tags(ls[i]), ok |-> TRUE]]

\* meanings[:3]: three sentences that each embed a prefix of the content
_generate_meanings(content) ==
    CASE content = LineQuick ->
            <<"Users prioritize I just want to get t...",
              "This suggests a fundamental need for I just want to ...",
              "The underlying pattern indicates I just want to get this d...">>
      [] content = LineCluttered ->
            <<"Users prioritize The interface is clu...",
              "This suggests a fundamental need for The interface i...",
              "The underlying pattern indicates The interface is cluttere...">>
      [] OTHER ->
            <<"Users prioritize Users said \"it works...",
              "This suggests a fundamental need for Users said \"it ...",
              "The underlying pattern indicates Users said \"it works\"....">>

InferenceAgent(chunks) ==
    [i \in 1..Len(chunks) |->
        [chunk_id |-> chunks[i].id,
         meanings |-> _generate_meanings(chunks[i].content), ok |-> TRUE]]

\* the words w of _group_by_themes' tests with  w in str(meanings).lower():
\* the prefixes of the sample lines hold none of them
WordsInMeanings(meanings) == {}

\* the theme _group_by_themes files an inference under
ThemeOf(inference) ==
    LET w == WordsInMeanings(inference.meanings)
    IN IF w \cap {"quick", "fast", "efficient"} # {} THEN "efficiency"
       ELSE IF w \cap {"clear", "understand", "simple"} # {} THEN "clarity"
       ELSE "user_needs"

_generate_pattern_name(theme) ==
    CASE theme = "efficiency" -> "User Efficiency Optimization"
      [] theme = "clarity" -> "Information Clarity Needs"
      [] theme = "simplicity" -> "Simplicity Preference"
      [] theme = "user_needs" -> "Core User Needs"

RECURSIVE PatternsOfThemes(_, _)
\* one pattern per theme that has inferences, in the order of the themes
PatternsOfThemes(themes, inferences) ==
    IF themes = <<>> THEN <<>>
    ELSE LET group == SelectSeq(inferences,
                        LAMBDA inf : ThemeOf(inf) = Head(themes))
         IN (IF group = <<>> THEN <<>>
             ELSE <<[name |-> _generate_pattern_name(Head(themes)),
                     related_inferences |-> ChunkIdsOf(group),
                     themes |-> <<Head(themes)>>,
                     evidence_count |-> Len(group), ok |-> TRUE]>>)
            \o PatternsOfThemes(Tail(themes), inferences)

PatternAgent(inferences) ==
    PatternsOfThemes(<<"efficiency", "clarity", "simplicity", "user_needs">>,
                     inferences)

_generate_headline(pattern) ==
    LET theme == IF pattern.themes # <<>> THEN pattern.themes[1]
                 ELSE "user_behavior"
    IN CASE theme = "efficiency" -> HeadlineSpeed
         [] theme = "clarity" -> HeadlineBarriers
         [] theme = "simplicity" -> "SIMPLICITY DRIVES ADOPTION"
         [] theme = "user_needs" -> "CORE NEEDS TRUMP FEATURE RICHNESS"
         [] OTHER -> "USER_BEHAVIOR DRIVES USER BEHAVIOR"

InsightAgent(patterns) ==
    [i \in 1..Len(patterns) |->
        [headline |-> _generate_headline(patterns[i]),
         pattern_id |-> patterns[i].name,
         non_consensus |-> TRUE, ok |-> TRUE]]

_generate_principle(insight) ==
    CASE insight.headline = HeadlineSpeed -> PrincipleSpeed
      [] insight.headline = HeadlineBarriers -> PrincipleClarity
      [] insight.headline = "SIMPLICITY DRIVES ADOPTION" ->
            "The system should simplify user workflows and reduce decision fatigue"
      [] insight.headline = "CORE NEEDS TRUMP FEATURE RICHNESS" ->
            "The experience must focus on core user needs rather than feature completeness"
      [] OTHER -> "The system should address user_behavior drives user behavior"

DesignPrincipleAgent(insights) ==
    [i \in 1..Len(insights) |->
        [principle |-> _generate_principle(insights[i]),
         insight_id |-> insights[i].headline]]

AgentsStage(stage, r, st) ==
    Ok(CASE stage = "chunk" -> ChunkingAgent(r, st.research_data)
         [] stage = "infer" -> InferenceAgent(st.chunks)
         [] stage = "relate" -> PatternAgent(st.inferences)
         [] stage = "explain" -> InsightAgent(st.patterns)
         [] stage = "activate" -> DesignPrincipleAgent(st.insights),
       "agent")

(***************************************************************************)
(* A run: the state dict of the graph, the position of the run, and what   *)
(* its caller does before and after it                                     *)
(***************************************************************************)
RunIds == {1}

\* str(uuid.uuid4()) of the API handler, and the id of a test script
RequestIdOf(r) == IF r = 1 THEN "req1" ELSE "req2"

\* f"analysis_{uuid.uuid4().hex[:8]}": the id a run makes up for itself
GeneratedIdOf(r) == IF r = 1 THEN "analysis_1" ELSE "analysis_2"

GeneratedIds == {GeneratedIdOf(r) : r \in RunIds}

TableIds == RequestIds \cup GeneratedIds

Variants == {"hybrid", "langchain", "openai", "agents"}

CurrentSteps == <<"initialized", "chunked", "inferred", "patterned",
                  "insights_generated", "completed">>

\* the current_step a stage function returns
StepAfterStage(stage) == CurrentSteps[StageIndex(stage) + 1]

\* infer_meanings and relate_patterns reporting each other's step
TrackerStep_swapped(stage) ==
    IF stage = "infer" THEN "relating"
    ELSE IF stage = "relate" THEN "inferring"
    ELSE StepNames[StageIndex(stage)]
\* the tracker step a hybrid stage reports
TrackerStep(stage) == StepNames[StageIndex(stage)]

\* an edge from infer to explain
NextNode_skip_relate(stage) ==
    IF stage = "activate" THEN "returned"
    ELSE IF stage = "infer" THEN "explain"
    ELSE StageNames[StageIndex(stage) + 1]
\* an edge from relate to activate
NextNode_skip_explain(stage) ==
    IF stage = "activate" THEN "returned"
    ELSE IF stage = "relate" THEN "activate"
    ELSE StageNames[StageIndex(stage) + 1]
\* add_edge: the node after a node, END after activate
NextNode(stage) ==
    IF stage = "activate" THEN "returned"
    ELSE StageNames[StageIndex(stage) + 1]

ListOf(stage) ==
    CASE stage = "chunk" -> "chunks"
      [] stage = "infer" -> "inferences"
      [] stage = "relate" -> "patterns"
      [] stage = "explain" -> "insights"
      [] stage = "activate" -> "design_principles"

FiveLists == {ListOf(stage) : stage \in Stages}

IdleRun ==
    [variant |-> "none", caller |-> "none",
     request_id |-> None, tracking_id |-> None, path |-> None,
     pc |-> "idle", phase |-> "enter", current_step |-> "none",
     research_data |-> <<>>,
     chunks |-> <<>>, inferences |-> <<>>, patterns |-> <<>>,
     insights |-> <<>>, design_principles |-> <<>>,
     produced |-> {}, via |-> [stage \in Stages |-> "none"],
     call_failed |-> FALSE, error |-> "none", handled |-> FALSE,
     http_error |-> 0, detail |-> "none"]

\* no result file for the id
NoResult == [exists |-> FALSE]

\* the AnalysisResponse a handler stores
CompletedResult(st) ==
    [exists |-> TRUE, status |-> "completed", error |-> "none",
     chunks |-> st.chunks, inferences |-> st.inferences,
     patterns |-> st.patterns, insights |-> st.insights,
     design_principles |-> st.design_principles]

\* an except branch that saves what the run had produced as a completed
\* response
ErrorResult_as_completed(st) == CompletedResult(st)
\* the error_response a handler stores
ErrorResult(st) ==
    [exists |-> TRUE, status |-> "error", error |-> st.error,
     chunks |-> <<>>, inferences |-> <<>>, patterns |-> <<>>,
     insights |-> <<>>, design_principles |-> <<>>]

\* storage._get_object_key(request_id, "analysis")
ResultPathOf(id) == IF id = "req1" THEN "results/req1.json" ELSE "results/req2.json"

(***************************************************************************)
(* The result stores.  A local store keeps the result of request id in the *)
(* file <id>.json, named here by the id.  S3Storage keeps it in the bucket *)
(* under the dated key and looks for it under three keys.  json.dump and   *)
(* json.load give back the strings, lists and dicts they were given.  The  *)
(* month of the dated key is one and the same throughout.                  *)
(***************************************************************************)
\* the dated key, f"{prefix}/analysis/{request_id}.json" and
\* f"{prefix}/{request_id}.json"
possible_keys(id) ==
    IF id = "req1"
    THEN <<ResultPathOf(id), "results/analysis/req1.json", "results/root/req1.json">>
    ELSE <<ResultPathOf(id), "results/analysis/req2.json", "results/root/req2.json">>

\* the names under which a result can be kept: files and objects
StoreNames ==
    RequestIds \cup UNION {Range(possible_keys(id)) : id \in RequestIds}

\* AnalysisStorage and LocalAnalysisStorage
save_analysis(s, id, result) ==
    [ret |-> TRUE, store |-> [s EXCEPT ![id] = result]]

load_analysis(s, id) == IF s[id].exists THEN s[id] ELSE NoResult

delete_analysis(s, id) ==
    IF s[id].exists
    THEN [ret |-> TRUE, store |-> [s EXCEPT ![id] = NoResult]]
    ELSE [ret |-> FALSE, store |-> s]

\* S3Storage.save_analysis: the result gets s3_metadata and is put under
\* the dated key
S3_save_analysis(s, id, result) ==
    [ret |-> TRUE,
     store |-> [s EXCEPT ![ResultPathOf(id)] =
                    result @@ [s3_metadata |-> "s3"]]]

\* get_object answers NoSuchKey for a key that holds nothing: the next key
\* is tried
S3_load_analysis(s, id) ==
    LET keys == possible_keys(id)
        found == {i \in 1..Len(keys) : s[keys[i]].exists}
    IN IF found = {} THEN NoResult
       ELSE s[keys[CHOOSE i \in found : \A j \in found : i <= j]]

\* delete_object answers success whether or not the key holds anything, so
\* the loop returns True at its first key
S3_delete_analysis(s, id) ==
    [ret |-> TRUE, store |-> [s EXCEPT ![possible_keys(id)[1]] = NoResult]]

\* the state a stage function returns: {**state, list, current_step}
AfterStage(st, stage, res, cf) ==
    LET withList ==
          CASE stage = "chunk" -> [st EXCEPT !.chunks = res.out]
            [] stage = "infer" -> [st EXCEPT !.inferences = res.out]
            [] stage = "relate" -> [st EXCEPT !.patterns = res.out]
            [] stage = "explain" -> [st EXCEPT !.insights = res.out]
            [] stage = "activate" -> [st EXCEPT !.design_principles = res.out]
    IN [withList EXCEPT
            !.current_step = IF st.variant = "openai" THEN "none"
                             ELSE StepAfterStage(stage),
            !.produced = @ \cup {ListOf(stage)},
            !.via[stage] = res.via,
            !.call_failed = @ \/ cf,
            !.pc = NextNode(stage),
            !.phase = "enter"]

\* a runner that catches the exception and calls the stage again
AfterRaise_retries(st, res, cf) ==
    [st EXCEPT !.error = res.error, !.call_failed = @ \/ cf]
\* the exception leaves the graph: no state is returned
AfterRaise(st, res, cf) ==
    [st EXCEPT !.pc = "raised", !.error = res.error, !.call_failed = @ \/ cf]

\* the call of the stage was made and failed (transport, auth, rate limit)
CallFailed(stage, st, reply) ==
    ~PromptRaises(stage, st) /\ reply.kind = "call_error"

CompletedMessage(stage, via) ==
    IF via = "primary" THEN "completed" ELSE "completed using fallback method"

(***************************************************************************)
(* Actions                                                                 *)
(***************************************************************************)
Init ==
    /\ runs = [r \in RunIds |-> IdleRun]
    /\ table = [id \in TableIds |-> NoRecord]
    /\ store = [id \in StoreNames |-> NoResult]
    /\ opsLeft = 0

\* POST /analyze of api.py: the pipeline is called with the text only
SubmitApi(r, variant, text) ==
    /\ runs[r].pc = "idle"
    /\ variant \in {"openai", "hybrid", "langchain"}
    /\ runs' = [runs EXCEPT ![r] =
            [@ EXCEPT !.caller = "api", !.variant = variant,
                      !.request_id = RequestIdOf(r),
                      !.research_data = text, !.pc = "start"]]
    /\ UNCHANGED <<table, store, opsLeft>>

(***************************************************************************)
(* The request of api_s3.py: research_data is a text or absent (NoText),   *)
(* s3_file_path a string or absent (None).  With local storage the path    *)
(* names a local file.                                                     *)
(***************************************************************************)
NoText == <<>>

\* the files that exist, with what they hold
LocalFiles ==
    [p \in {"uploads/a.txt", "uploads/empty.txt"} |->
        IF p = "uploads/a.txt" THEN <<LineQuick>> ELSE <<LineEmpty>>]

RequestTexts == Texts \cup {NoText}

\* absent, empty, two files that exist and one that does not
RequestPaths ==
    {None, "", "uploads/a.txt", "uploads/empty.txt", "uploads/missing.txt"}

\* bool(research_data), bool(s3_file_path)
HasText(rd) == rd # NoText /\ ~IsEmptyText(rd)

HasPath(fp) == fp \notin {None, ""}

NotBoth == "Provide either research_data or s3_file_path, not both"
MustProvide == "Either research_data or s3_file_path must be provided"

\* a validator that lets a request with both inputs pass
validate_input_accepts_both(rd, fp) == TRUE
\* the field validator, run for s3_file_path after research_data
validate_input(rd, fp) == ~(HasPath(fp) /\ HasText(rd))

\* the model validator, run when no field validator has raised
validate_required_fields(rd, fp) == HasText(rd) \/ HasPath(fp)

\* the error AnalysisRequest(**body) raises, "none" when it is constructed
AnalysisRequest(rd, fp) ==
    IF ~validate_input(rd, fp) THEN NotBoth
    ELSE IF ~validate_required_fields(rd, fp) THEN MustProvide
    ELSE "none"

\* the research data the handler obtains in its try block, or the status
\* code of the HTTPException it raises there
ObtainResearchData(rd, fp) ==
    IF HasText(rd) THEN [raised |-> 0, research_data |-> rd]
    ELSE IF HasPath(fp) /\ fp \notin DOMAIN LocalFiles
    THEN [raised |-> 404, research_data |-> NoText]
    ELSE IF ~HasPath(fp) \/ ~HasText(LocalFiles[fp])
    THEN [raised |-> 400, research_data |-> NoText]
    ELSE [raised |-> 0, research_data |-> LocalFiles[fp]]

\* except Exception at the end of the handler: whatever was raised in the
\* try block, an HTTPException too, is raised again as HTTPException(500)
ExceptException(raised) == IF raised = 0 THEN 0 ELSE 500

\* POST /analyze of api_s3.py.  A body that does not validate is answered
\* 422 before the handler runs.  create_analysis_request is called with
\* three arguments: the TypeError is caught and logged, no record is made.
SubmitApiS3(r, variant, rd, fp) ==
    /\ runs[r].pc = "idle"
    /\ variant \in {"openai", "hybrid", "langchain"}
    /\ LET invalid == AnalysisRequest(rd, fp)
           got == ObtainResearchData(rd, fp)
       IN runs' = [runs EXCEPT ![r] =
            IF invalid # "none"
            THEN [@ EXCEPT !.caller = "api_s3", !.pc = "rejected",
                           !.http_error = 422, !.detail = invalid]
            ELSE IF got.raised # 0
            THEN [@ EXCEPT !.caller = "api_s3", !.variant = variant,
                           !.request_id = RequestIdOf(r),
                           !.pc = "rejected",
                           !.http_error = ExceptException(got.raised),
                           !.detail = "Failed to start analysis"]
            ELSE [@ EXCEPT !.caller = "api_s3", !.variant = variant,
                           !.request_id = RequestIdOf(r),
                           !.path = IF HasPath(fp) THEN fp ELSE None,
                           !.research_data = got.research_data,
                           !.pc = "start"]]
    /\ UNCHANGED <<table, store, opsLeft>>

\* the scripts that create the tracking record and then run the hybrid
\* pipeline with the request id and the path
SubmitTracked(r, text) ==
    /\ runs[r].pc = "idle"
    /\ LET path == CHOOSE p \in Paths : TRUE
       IN /\ table' = create_analysis_request(table, RequestIdOf(r), path)
          /\ runs' = [runs EXCEPT ![r] =
                [@ EXCEPT !.caller = "tracked", !.variant = "hybrid",
                          !.request_id = RequestIdOf(r), !.path = path,
                          !.research_data = text, !.pc = "start"]]
    /\ UNCHANGED <<store, opsLeft>>

\* run_agentic_design_analysis(research_data): no API offers this variant
SubmitAgents(r, text) ==
    /\ runs[r].pc = "idle"
    /\ runs' = [runs EXCEPT ![r] =
            [@ EXCEPT !.caller = "plain", !.variant = "agents",
                      !.research_data = text, !.pc = "start"]]
    /\ UNCHANGED <<table, store, opsLeft>>

\* the head of run_hybrid_agentic_analysis, run_agentic_analysis,
\* run_openai_agentic_analysis, run_agentic_design_analysis.  api_s3 passes
\* save_to_s3=True, which run_hybrid_agentic_analysis does not accept.
RunStart(r) ==
    LET st == runs[r]
        tid == IF st.caller = "tracked" THEN st.request_id ELSE GeneratedIdOf(r)
    IN /\ st.pc = "start"
       /\ IF st.variant = "hybrid" /\ st.caller = "api_s3"
          THEN /\ runs' = [runs EXCEPT ![r] = AfterRaise(st, Raise("TypeError"), FALSE)]
               /\ UNCHANGED table
          ELSE IF st.variant = "hybrid"
          THEN /\ runs' = [runs EXCEPT ![r] =
                    [st EXCEPT !.tracking_id = tid,
                               !.current_step = "initialized", !.pc = "chunk"]]
               /\ table' = IF st.caller = "tracked"
                           THEN create_analysis_request(table, tid, st.path)
                           ELSE table
          ELSE /\ runs' = [runs EXCEPT ![r] =
                    [st EXCEPT !.current_step =
                                  IF st.variant = "openai" THEN "none"
                                  ELSE "initialized",
                               !.pc = "chunk"]]
               /\ UNCHANGED table
       /\ UNCHANGED <<store, opsLeft>>

\* a hybrid stage function up to its call: the step is reported processing
HybridEnter(r) ==
    LET st == runs[r]
    IN /\ st.variant = "hybrid"
       /\ st.pc \in Stages
       /\ st.phase = "enter"
       /\ table' = update_step_status(table, st.tracking_id, TrackerStep(st.pc),
                                      PROCESSING, "Starting", None)
       /\ runs' = [runs EXCEPT ![r].phase = "call"]
       /\ UNCHANGED <<store, opsLeft>>

\* the rest of a hybrid stage function: prompt, call, parse or fallback,
\* the step reported completed, the new state returned
HybridFinish(r) ==
    LET st == runs[r]
    IN /\ st.variant = "hybrid"
       /\ st.pc \in Stages
       /\ st.phase = "call"
       /\ \E reply \in Replies(st.pc, st) :
             LET res == HybridStage(st.pc, r, st, reply)
             IN IF res.raised
                THEN /\ runs' = [runs EXCEPT ![r] =
                            AfterRaise(st, res, CallFailed(st.pc, st, reply))]
                     /\ UNCHANGED table
                ELSE /\ runs' = [runs EXCEPT ![r] =
                            AfterStage(st, st.pc, res, CallFailed(st.pc, st, reply))]
                     /\ table' = update_step_status(table, st.tracking_id,
                                    TrackerStep(st.pc), COMPLETED,
                                    CompletedMessage(st.pc, res.via), None)
       /\ UNCHANGED <<store, opsLeft>>

\* a node of create_agentic_graph
LangchainStep(r) ==
    LET st == runs[r]
    IN /\ st.variant = "langchain"
       /\ st.pc \in Stages
       /\ \E reply \in Replies(st.pc, st) :
             LET res == LangchainStage(st.pc, r, st, reply)
             IN runs' = [runs EXCEPT ![r] =
                    IF res.raised
                    THEN AfterRaise(st, res, CallFailed(st.pc, st, reply))
                    ELSE AfterStage(st, st.pc, res, CallFailed(st.pc, st, reply))]
       /\ UNCHANGED <<table, store, opsLeft>>

\* a step of run_openai_agentic_analysis
OpenAIStep(r) ==
    LET st == runs[r]
    IN /\ st.variant = "openai"
       /\ st.pc \in Stages
       /\ \E reply \in Replies(st.pc, st) :
             LET res == OpenAIStage(st.pc, r, st, reply)
             IN runs' = [runs EXCEPT ![r] =
                    IF res.raised
                    THEN AfterRaise(st, res, CallFailed(st.pc, st, reply))
                    ELSE AfterStage(st, st.pc, res, CallFailed(st.pc, st, reply))]
       /\ UNCHANGED <<table, store, opsLeft>>

\* a node of create_agentic_design_analysis_graph
AgentsStep(r) ==
    LET st == runs[r]
    IN /\ st.variant = "agents"
       /\ st.pc \in Stages
       /\ runs' = [runs EXCEPT ![r] =
              AfterStage(st, st.pc, AgentsStage(st.pc, r, st), FALSE)]
       /\ UNCHANGED <<table, store, opsLeft>>

\* api.py after the pipeline: the completed or the error response is saved,
\* and after the error response HTTPException(500) is raised
FinishApi(r) ==
    LET st == runs[r]
    IN /\ st.caller = "api"
       /\ st.pc \in {"returned", "raised"}
       /\ ~st.handled
       /\ store' = save_analysis(store, st.request_id,
              IF st.pc = "returned" THEN CompletedResult(st)
              ELSE ErrorResult(st)).store
       /\ runs' = [runs EXCEPT ![r] =
              IF st.pc = "returned" THEN [st EXCEPT !.handled = TRUE]
              ELSE [st EXCEPT !.handled = TRUE, !.http_error = 500,
                              !.detail = st.error]]
       /\ UNCHANGED <<table, opsLeft>>

\* run_analysis_async after the pipeline.  On failure it calls
\* tracker.update_overall_status, which DynamoDBTracker does not have: the
\* AttributeError is caught and the record is left as it is.
FinishApiS3(r) ==
    LET st == runs[r]
    IN /\ st.caller = "api_s3"
       /\ st.pc \in {"returned", "raised"}
       /\ ~st.handled
       /\ store' = save_analysis(store, st.request_id,
              IF st.pc = "returned" THEN CompletedResult(st)
              ELSE ErrorResult(st)).store
       /\ table' = IF st.pc = "returned" /\ st.variant = "hybrid"
                   THEN update_result_data(table, st.request_id,
                                           ResultPathOf(st.request_id))
                   ELSE table
       /\ runs' = [runs EXCEPT ![r].handled = TRUE]
       /\ UNCHANGED opsLeft

Next ==
    \E r \in RunIds :
        \/ \E variant \in Variants, text \in Texts : SubmitApi(r, variant, text)
        \/ \E variant \in Variants, rd \in RequestTexts, fp \in RequestPaths :
              SubmitApiS3(r, variant, rd, fp)
        \/ \E text \in Texts : SubmitTracked(r, text)
        \/ \E text \in Texts : SubmitAgents(r, text)
        \/ RunStart(r)
        \/ HybridEnter(r)
        \/ HybridFinish(r)
        \/ LangchainStep(r)
        \/ OpenAIStep(r)
        \/ AgentsStep(r)
        \/ FinishApi(r)
        \/ FinishApiS3(r)

Spec == Init /\ [][Next]_vars

\* the run functions as api.py and the scripts call them, without what the
\* caller does with the result
RunNext ==
    \E r \in RunIds :
        \/ \E variant \in Variants, text \in Texts : SubmitApi(r, variant, text)
        \/ \E text \in Texts : SubmitTracked(r, text)
        \/ \E text \in Texts : SubmitAgents(r, text)
        \/ RunStart(r)
        \/ HybridEnter(r)
        \/ HybridFinish(r)
        \/ LangchainStep(r)
        \/ OpenAIStep(r)
        \/ AgentsStep(r)

RunSpec == Init /\ [][RunNext]_vars

\* every step of a run is a step of the one Python thread that runs it, and
\* the thread goes on until the run function has returned or raised
FairRunSpec == RunSpec /\ WF_vars(RunNext)

(***************************************************************************)
(* Two analyses at once: two scripts, or two background tasks of api_s3,   *)
(* with their stages and their writes interleaved.  The text-generation    *)
(* model answers every call with text that does not parse.                 *)
(***************************************************************************)
ConcRunIds == {1, 2}

ConcTexts == {<<LineQuick, LineCluttered>>, <<LineIndented>>}

ConcInit ==
    /\ runs = [r \in ConcRunIds |-> IdleRun]
    /\ table = [id \in TableIds |-> NoRecord]
    /\ store = [id \in StoreNames |-> NoResult]
    /\ opsLeft = 0

\* the stage of run r that has just returned took its fallback
OnFallback(r) ==
    /\ ~runs'[r].call_failed
    /\ \A stage \in Stages : runs'[r].via[stage] # "primary"

ConcNext ==
    \E r \in ConcRunIds :
        \/ \E text \in ConcTexts : SubmitTracked(r, text)
        \/ \E text \in ConcTexts : SubmitApiS3(r, "langchain", text, None)
        \/ \E text \in ConcTexts : SubmitApiS3(r, "hybrid", text, None)
        \/ RunStart(r)
        \/ HybridEnter(r)
        \/ HybridFinish(r) /\ OnFallback(r)
        \/ LangchainStep(r) /\ OnFallback(r)
        \/ FinishApiS3(r)

ConcSpec == ConcInit /\ [][ConcNext]_vars

(***************************************************************************)
(* The tracker on its own: any client may call its operations in any order *)
(***************************************************************************)
TrackerInit ==
    /\ runs = [r \in RunIds |-> IdleRun]
    /\ table = [id \in TableIds |-> NoRecord]
    /\ store = [id \in StoreNames |-> NoResult]
    /\ opsLeft = MaxOps

TrackerCreate(id, path) ==
    /\ opsLeft > 0
    /\ table' = create_analysis_request(table, id, path)
    /\ opsLeft' = opsLeft - 1
    /\ UNCHANGED <<runs, store>>

TrackerUpdateStep(id, step, status, result_s3_path) ==
    /\ opsLeft > 0
    /\ table' = update_step_status(table, id, step, status, "update",
                                   result_s3_path)
    /\ opsLeft' = opsLeft - 1
    /\ UNCHANGED <<runs, store>>

TrackerUpdateResult(id, result_s3_path) ==
    /\ opsLeft > 0
    /\ table' = update_result_data(table, id, result_s3_path)
    /\ opsLeft' = opsLeft - 1
    /\ UNCHANGED <<runs, store>>

TrackerNext ==
    \E id \in RequestIds :
        \/ \E path \in Paths : TrackerCreate(id, path)
        \/ \E step \in Steps, status \in StepStatus,
              p \in {None, ResultPathOf(id)} :
                TrackerUpdateStep(id, step, status, p)
        \/ TrackerUpdateResult(id, ResultPathOf(id))

TrackerSpec == TrackerInit /\ [][TrackerNext]_vars

(***************************************************************************)
(* The result stores on their own: any client may save, load and delete    *)
(* results in any order, in the local store or in the bucket               *)
(***************************************************************************)
\* what initialize_storage returns
StorageKinds == {"local", "s3"}

storage_save_analysis(kind, s, id, result) ==
    IF kind = "local" THEN save_analysis(s, id, result)
    ELSE S3_save_analysis(s, id, result)

storage_load_analysis(kind, s, id) ==
    IF kind = "local" THEN load_analysis(s, id) ELSE S3_load_analysis(s, id)

storage_delete_analysis(kind, s, id) ==
    IF kind = "local" THEN delete_analysis(s, id)
    ELSE S3_delete_analysis(s, id)

\* a completed and an error response, as the handlers save them
SampleResults ==
    {CompletedResult([IdleRun EXCEPT
                         !.chunks = FallbackChunks(1, <<LineQuick>>)]),
     ErrorResult([IdleRun EXCEPT !.error = "KeyError"])}

StoreInit ==
    /\ runs = [r \in RunIds |-> IdleRun]
    /\ table = [id \in TableIds |-> NoRecord]
    /\ store = [id \in StoreNames |-> NoResult]
    /\ opsLeft = MaxOps

StoreSave(kind, id, result) ==
    /\ opsLeft > 0
    /\ store' = storage_save_analysis(kind, store, id, result).store
    /\ opsLeft' = opsLeft - 1
    /\ UNCHANGED <<runs, table>>

StoreLoad(kind, id) ==
    /\ opsLeft > 0
    /\ opsLeft' = opsLeft - 1
    /\ UNCHANGED <<runs, table, store>>

StoreDelete(kind, id) ==
    /\ opsLeft > 0
    /\ store' = storage_delete_analysis(kind, store, id).store
    /\ opsLeft' = opsLeft - 1
    /\ UNCHANGED <<runs, table>>

StoreNext ==
    \E kind \in StorageKinds, id \in RequestIds :
        \/ \E result \in SampleResults : StoreSave(kind, id, result)
        \/ StoreLoad(kind, id)
        \/ StoreDelete(kind, id)

StoreSpec == StoreInit /\ [][StoreNext]_vars

(***************************************************************************)
(* Properties                                                              *)
(***************************************************************************)
GraphVariants == {"hybrid", "langchain", "agents"}

ModelVariants == {"hybrid", "langchain", "openai"}

\* the run is over: the pipeline function has returned or raised
RunOver(r) == runs[r].pc \in {"returned", "raised"}

\* a stage function raised (not the call of the pipeline function itself)
StageRaised(r) == runs[r].pc = "raised" /\ runs[r].error # "TypeError"

\* the tracking record a hybrid run reports to
RecordOf(r) == table[runs[r].tracking_id]

HasRecord(r) ==
    /\ runs[r].variant = "hybrid"
    /\ runs[r].tracking_id # None
    /\ RecordOf(r).exists

StatusOf(r, i) == RecordOf(r).steps_status[StepNames[i]].status

\* C1: in the graph variants current_step, once initialized, only ever moves
\* to the value that follows it in initialized, chunked, inferred, patterned,
\* insights_generated, completed, and a run that returns has reached completed
C1_StepOrder ==
    [][\A r \in RunIds :
        LET a == runs[r].current_step
            b == runs'[r].current_step
        IN runs'[r].variant \in GraphVariants =>
            /\ a # b =>
                \/ a = "none" /\ b = "initialized"
                \/ \E i \in 1..(Len(CurrentSteps) - 1) :
                        a = CurrentSteps[i] /\ b = CurrentSteps[i + 1]
            /\ runs'[r].pc = "returned" => b = "completed"]_vars

C1_Witness ==
    \E r \in RunIds :
        /\ runs[r].variant \in GraphVariants
        /\ runs[r].pc = "returned"
        /\ runs[r].current_step = "completed"

Rank(status) ==
    CASE status = PENDING -> 0
      [] status = PROCESSING -> 1
      [] status = COMPLETED -> 2
      [] status = FAILED -> 2

\* C2: no tracker operation moves a step of a record to a status that is
\* earlier in pending < processing < completed / failed
C2_StatusMonotone ==
    [][\A id \in RequestIds : \A s \in Steps :
        (table[id].exists /\ table'[id].exists) =>
            Rank(table'[id].steps_status[s].status)
                >= Rank(table[id].steps_status[s].status)]_vars

\* C3: in the record of a hybrid run a step is processing only while every
\* earlier step is completed and every later step is pending
C3_OneStepProcessing ==
    \A r \in RunIds :
        HasRecord(r) =>
            \A i \in 1..Len(StepNames) :
                StatusOf(r, i) = PROCESSING =>
                    /\ \A j \in 1..(i - 1) : StatusOf(r, j) = COMPLETED
                    /\ \A j \in (i + 1)..Len(StepNames) : StatusOf(r, j) = PENDING

C3_Witness ==
    \E r \in RunIds :
        /\ HasRecord(r)
        /\ StatusOf(r, 3) = PROCESSING
        /\ StatusOf(r, 2) = COMPLETED
        /\ StatusOf(r, 4) = PENDING

\* C4: when a hybrid run is over, no step of its record is left processing
C4_NoStepLeftProcessing ==
    \A r \in RunIds :
        (HasRecord(r) /\ RunOver(r)) =>
            \A i \in 1..Len(StepNames) : StatusOf(r, i) # PROCESSING

\* C5: when a stage has raised and the caller has handled the failure, the
\* tracking record of the request says overall_status failed, and the run
\* has started no later stage: the last list is not produced
C5_RaiseMarksFailed ==
    \A r \in RunIds :
        LET st == runs[r]
        IN (/\ StageRaised(r)
            /\ st.caller \in {"api_s3", "tracked"}
            /\ st.caller = "api_s3" => st.handled) =>
                /\ table[st.request_id].exists
                /\ table[st.request_id].overall_status = FAILED
                /\ "design_principles" \notin st.produced

C7_ParseFailureNotSurfaced ==
    \A r \in RunIds : ~(runs[r].pc = "raised" /\ runs[r].error = "parse")

\* C8: after a failed text-generation call the run is aborted (the stage
\* returns no list), and the record of the run, if it has one, has a failed
\* step and overall_status failed
C8_CallFailureAborts ==
    \A r \in RunIds :
        runs[r].call_failed =>
            /\ runs[r].pc = "raised"
            /\ HasRecord(r) =>
                    /\ RecordOf(r).overall_status = FAILED
                    /\ \E i \in 1..Len(StepNames) : StatusOf(r, i) = FAILED

ChunkIds(st) == {st.chunks[i].id : i \in 1..Len(st.chunks)}

InferenceChunkIds(st) == {st.inferences[i].chunk_id : i \in 1..Len(st.inferences)}

PatternNames(st) == {st.patterns[i].name : i \in 1..Len(st.patterns)}

Headlines(st) == {st.insights[i].headline : i \in 1..Len(st.insights)}

ReferenceIntegrity(st) ==
    /\ \A i \in 1..Len(st.inferences) : st.inferences[i].chunk_id \in ChunkIds(st)
    /\ \A i \in 1..Len(st.patterns) :
            Range(st.patterns[i].related_inferences) \subseteq InferenceChunkIds(st)
    /\ \A i \in 1..Len(st.insights) : st.insights[i].pattern_id \in PatternNames(st)
    /\ \A i \in 1..Len(st.design_principles) :
            st.design_principles[i].insight_id \in Headlines(st)

\* C9: in a run that has returned every reference names a record of the run
C9_ReferenceIntegrity ==
    \A r \in RunIds : runs[r].pc = "returned" => ReferenceIntegrity(runs[r])

\* C10: a run over a non-empty text that has returned has five non-empty lists
C10_ListsNonEmpty ==
    \A r \in RunIds :
        (runs[r].pc = "returned" /\ ~IsEmptyText(runs[r].research_data)) =>
            /\ runs[r].chunks # <<>>
            /\ runs[r].inferences # <<>>
            /\ runs[r].patterns # <<>>
            /\ runs[r].insights # <<>>
            /\ runs[r].design_principles # <<>>

\* C11: a run that has returned has exactly one inference per chunk, exactly
\* one insight per pattern and exactly one design principle per insight
C11_OnePerPredecessor ==
    \A r \in RunIds :
        LET st == runs[r]
        IN st.pc = "returned" =>
            /\ Len(st.inferences) = Len(st.chunks)
            /\ \A i \in 1..Len(st.chunks) :
                    Cardinality({j \in 1..Len(st.inferences) :
                        st.inferences[j].chunk_id = st.chunks[i].id}) = 1
            /\ Len(st.insights) = Len(st.patterns)
            /\ \A i \in 1..Len(st.patterns) :
                    Cardinality({j \in 1..Len(st.insights) :
                        st.insights[j].pattern_id = st.patterns[i].name}) = 1
            /\ Len(st.design_principles) = Len(st.insights)
            /\ \A i \in 1..Len(st.insights) :
                    Cardinality({j \in 1..Len(st.design_principles) :
                        st.design_principles[j].insight_id
                            = st.insights[i].headline}) = 1

\* the run went through all five stages and each took its fallback
AllFallback(st) ==
    st.pc = "returned" /\ \A stage \in Stages : st.via[stage] = "fallback"

\* the input whose non-blank lines are the two sample lines
TwoLineInput(st) == NonBlankLines(st.research_data) = <<LineQuick, LineCluttered>>

\* C12: an all-fallback run over the two-line input yields 2 chunks, the
\* meanings about speed and about complexity, the patterns User Efficiency
\* Needs and Information Clarity, and one insight and one principle for each
\* pattern, with the two fixed headlines
C12_FallbackScenario ==
    \A r \in RunIds :
        LET st == runs[r]
        IN (AllFallback(st) /\ TwoLineInput(st)) =>
            /\ Len(st.chunks) = 2
            /\ [i \in 1..2 |-> st.chunks[i].content] = <<LineQuick, LineCluttered>>
            /\ Len(st.inferences) = 2
            /\ st.inferences[1].chunk_id = st.chunks[1].id
            /\ st.inferences[1].meanings = <<MeaningSpeed>>
            /\ st.inferences[2].chunk_id = st.chunks[2].id
            /\ st.inferences[2].meanings = <<MeaningComplexity>>
            /\ [i \in 1..Len(st.patterns) |-> st.patterns[i].name]
                    = <<PatternEfficiency, PatternClarity>>
            /\ [i \in 1..Len(st.insights) |-> st.insights[i].headline]
                    = <<HeadlineSpeed, HeadlineBarriers>>
            /\ [i \in 1..Len(st.insights) |-> st.insights[i].pattern_id]
                    = <<PatternEfficiency, PatternClarity>>
            /\ [i \in 1..Len(st.design_principles) |->
                    st.design_principles[i].insight_id]
                    = <<HeadlineSpeed, HeadlineBarriers>>

C12_Witness ==
    \E r \in RunIds :
        /\ AllFallback(runs[r])
        /\ TwoLineInput(runs[r])
        /\ Len(runs[r].design_principles) = 2

IdsIn(x) ==
    {x.chunks[i].id : i \in 1..Len(x.chunks)}
    \cup {x.inferences[i].chunk_id : i \in 1..Len(x.inferences)}
    \cup UNION {Range(x.patterns[i].related_inferences) : i \in 1..Len(x.patterns)}

\* the status the record of run r has for step i if only r has written to it
OwnStatus(r, i) ==
    IF ListOf(StageNames[i]) \in runs[r].produced THEN COMPLETED
    ELSE IF runs[r].pc = StageNames[i] /\ runs[r].phase = "call" THEN PROCESSING
    ELSE PENDING

\* C14: with two runs under distinct request ids, the stored result and the
\* tracking record of each request hold only what its own run produced
C14_Isolation ==
    \A r \in ConcRunIds :
        LET st == runs[r]
            id == RequestIdOf(r)
        IN /\ store[id].exists =>
                /\ st.caller = "api_s3" /\ st.handled
                /\ store[id] = IF st.pc = "returned" THEN CompletedResult(st)
                                ELSE ErrorResult(st)
                /\ \A c \in IdsIn(store[id]) : c.run = r
           /\ table[id].exists =>
                /\ st.caller = "tracked"
                /\ table[id].research_data = st.path
                /\ table[id].result_data = ""
                /\ table[id].overall_status =
                        IF st.pc = "returned" THEN COMPLETED ELSE PENDING
                /\ \A i \in 1..Len(StepNames) :
                        table[id].steps_status[StepNames[i]].status = OwnStatus(r, i)

C14_Witness ==
    /\ runs[1].caller = "tracked" /\ runs[1].pc = "relate"
    /\ runs[2].caller = "tracked" /\ runs[2].pc = "infer" /\ runs[2].phase = "call"
    /\ table[RequestIdOf(1)].steps_status["inferring"].status = COMPLETED
    /\ table[RequestIdOf(2)].steps_status["inferring"].status = PROCESSING

\* C15: create_analysis_request on an id without a record puts a record with
\* five pending steps without timestamps, overall_status pending and
\* result_data empty, and get_analysis_status then returns that record
C15_CreateInserts ==
    [][\A id \in RequestIds, path \in Paths :
        (~table[id].exists /\ TrackerCreate(id, path)) =>
            LET rec == table'[id]
                got == get_analysis_status(table', id)
            IN /\ rec.exists
               /\ rec.overall_status = PENDING
               /\ rec.result_data = ""
               /\ \A s \in Steps :
                    /\ rec.steps_status[s].status = PENDING
                    /\ rec.steps_status[s].started_at = "NULL"
                    /\ rec.steps_status[s].completed_at = "NULL"
               /\ got.exists
               /\ got.research_data = path
               /\ got.overall_status = PENDING
               /\ got.result_data = ""
               /\ DOMAIN got.steps_status = Steps
               /\ \A s \in Steps :
                    /\ got.steps_status[s].status = PENDING
                    /\ got.steps_status[s].message = rec.steps_status[s].message
                    /\ got.steps_status[s].started_at = None
                    /\ got.steps_status[s].completed_at = None]_vars

C15_Witness ==
    \E id \in RequestIds :
        /\ opsLeft = MaxOps - 1
        /\ table[id].exists
        /\ \A s \in Steps : table[id].steps_status[s].status = PENDING

\* C16: create_analysis_request on an id that has a record leaves the record
\* as it is
C16_DuplicateCreateRejected ==
    [][\A id \in RequestIds, path \in Paths :
        (table[id].exists /\ TrackerCreate(id, path)) =>
            table'[id] = table[id]]_vars

\* C17: update_step_status sets overall_status to completed when it reports
\* activating completed, and leaves overall_status alone for every other
\* step and every other status
C17_OverallOnlyByActivating ==
    [][\A id \in RequestIds, step \in Steps, status \in StepStatus :
       \A p \in {None, ResultPathOf(id)} :
        (table[id].exists /\ TrackerUpdateStep(id, step, status, p)) =>
            table'[id].overall_status =
                IF step = "activating" /\ status = COMPLETED THEN COMPLETED
                ELSE table[id].overall_status]_vars

C17_Witness ==
    \E id \in RequestIds :
        /\ table[id].exists
        /\ table[id].steps_status["activating"].status = COMPLETED
        /\ table[id].steps_status["chunking"].status = PENDING
        /\ table[id].overall_status = COMPLETED

\* C18: update_result_data sets result_data to the pointer and leaves the
\* steps (status, message, timestamps), overall_status and research_data as
\* they were
C18_ResultDataFrame ==
    [][\A id \in RequestIds :
        (table[id].exists /\ TrackerUpdateResult(id, ResultPathOf(id))) =>
            /\ table'[id].result_data = ResultPathOf(id)
            /\ table'[id].steps_status = table[id].steps_status
            /\ table'[id].overall_status = table[id].overall_status
            /\ table'[id].research_data = table[id].research_data
            /\ \A other \in RequestIds \ {id} : table'[other] = table[other]]_vars

C18_Witness ==
    \E id \in RequestIds :
        /\ table[id].exists
        /\ table[id].result_data = ResultPathOf(id)
        /\ table[id].steps_status["chunking"].status = PROCESSING
        /\ table[id].overall_status = PENDING

\* the request of run r was accepted by POST /analyze of api_s3
Accepted(r) == runs[r].caller = "api_s3" /\ runs[r].pc \notin {"idle", "rejected"}

\* C19: from the moment api_s3 has accepted a request, a status query for its
\* request id finds a tracking record
C19_RecordFromSubmission ==
    \A r \in RunIds :
        Accepted(r) => get_analysis_status(table, runs[r].request_id).exists

\* C20: once the background task of an accepted hybrid request is over, the
\* tracking record of the request has a terminal overall_status: completed
\* if the run returned, failed if it raised
C20_ReachesTerminalStatus ==
    \A r \in RunIds :
        (Accepted(r) /\ runs[r].variant = "hybrid" /\ runs[r].handled) =>
            /\ table[runs[r].request_id].exists
            /\ table[runs[r].request_id].overall_status =
                    IF runs[r].pc = "returned" THEN COMPLETED ELSE FAILED


\* C21: whenever the record of a request shows overall_status completed,
\* get-result for the request id (what storage.load_analysis gives, 404 when
\* it gives nothing) answers with the five lists of that run: at no moment
\* is the status completed and the result not found
C21_CompletedHasResult ==
    \A r \in RunIds :
        LET st == runs[r]
        IN (/\ st.request_id # None
            /\ get_analysis_status(table, st.request_id).exists
            /\ get_analysis_status(table, st.request_id).overall_status
                  = COMPLETED)
           => /\ load_analysis(store, st.request_id).exists
              /\ \A l \in FiveLists :
                    load_analysis(store, st.request_id)[l] = st[l]


\* C22: an AnalysisRequest of api_s3 is accepted if and only if exactly one
\* of research_data and s3_file_path is given and non-empty; a request with
\* both and a request with neither are each rejected with a validation error
C22_ExactlyOneInput ==
    [][\A r \in RunIds :
          (runs[r].pc = "idle" /\ runs'[r].caller = "api_s3") =>
          \A variant \in ModelVariants, rd \in RequestTexts, fp \in RequestPaths :
          SubmitApiS3(r, variant, rd, fp) =>
             /\ (HasText(rd) /\ HasPath(fp)) =>
                   (runs'[r].http_error = 422 /\ runs'[r].detail = NotBoth)
             /\ (~HasText(rd) /\ ~HasPath(fp)) =>
                   (runs'[r].http_error = 422 /\ runs'[r].detail = MustProvide)
             /\ (HasText(rd) # HasPath(fp)) => runs'[r].http_error # 422]_vars

\* a request with both inputs has been rejected
C22_Witness ==
    \E r \in RunIds : runs[r].http_error = 422 /\ runs[r].detail = NotBoth


\* C24: POST /analyze of api_s3 with local storage answers 404 when
\* s3_file_path names no existing file and 400 when no research data can be
\* obtained; these client errors are not turned into another status code
C24_ClientErrorsKept ==
    [][\A r \in RunIds :
          (runs[r].pc = "idle" /\ runs'[r].caller = "api_s3") =>
          \A variant \in ModelVariants, rd \in RequestTexts, fp \in RequestPaths :
          (SubmitApiS3(r, variant, rd, fp) /\ AnalysisRequest(rd, fp) = "none") =>
             /\ (~HasText(rd) /\ fp \notin DOMAIN LocalFiles) =>
                   runs'[r].http_error = 404
             /\ (~HasText(rd) /\ fp \in DOMAIN LocalFiles
                    /\ ~HasText(LocalFiles[fp])) =>
                   runs'[r].http_error = 400]_vars


\* C23: in the local store and in S3Storage alike, load_analysis(id) after
\* save_analysis(id, r) gives the content of r and keeps giving it until
\* delete_analysis(id); after the delete it gives None; and delete_analysis
\* of an id that is not stored returns False
C23_SaveLoadDelete ==
    [][\A kind \in StorageKinds, id \in RequestIds :
          /\ \A result \in SampleResults :
                StoreSave(kind, id, result) =>
                   LET got == storage_load_analysis(kind, store', id)
                   IN /\ got.exists
                      /\ \A f \in DOMAIN result : got[f] = result[f]
          /\ StoreDelete(kind, id) =>
                /\ ~storage_load_analysis(kind, store', id).exists
                /\ ~storage_load_analysis(kind, store, id).exists =>
                      ~storage_delete_analysis(kind, store, id).ret
          /\ (/\ ~StoreDelete(kind, id)
              /\ \A result \in SampleResults : ~StoreSave(kind, id, result)) =>
                storage_load_analysis(kind, store', id)
                   = storage_load_analysis(kind, store, id)]_vars


\* C25: a stage whose predecessor list is empty produces an empty list
\* (chunks to inferences to patterns to insights to principles), whether it
\* takes its primary path or its fallback
C25_EmptyInEmptyOut ==
    [][\A r \in RunIds : \A stage \in Stages \ {"chunk"} :
          (/\ runs[r].pc = stage
           /\ runs'[r].pc = NextNode(stage)
           /\ Predecessor(stage, runs[r]) = <<>>)
          => runs'[r][ListOf(stage)] = <<>>]_vars


\* C26: after any sequence of tracker operations on a record, every step
\* whose status is processing has started_at set, and every step whose
\* status is completed or failed has completed_at set
C26_TimestampsSet ==
    \A id \in RequestIds :
        LET rec == get_analysis_status(table, id)
        IN rec.exists =>
              \A s \in Steps :
                 /\ rec.steps_status[s].status = PROCESSING =>
                       rec.steps_status[s].started_at # None
                 /\ rec.steps_status[s].status \in {COMPLETED, FAILED} =>
                       rec.steps_status[s].completed_at # None

\* a step has been reported failed and another processing
C26_Witness ==
    \E id \in RequestIds :
        /\ table[id].exists
        /\ \E s1, s2 \in Steps :
              /\ table[id].steps_status[s1].status = FAILED
              /\ table[id].steps_status[s1].completed_at = "TS"
              /\ table[id].steps_status[s2].status = PROCESSING
              /\ table[id].steps_status[s2].started_at = "TS"


\* C27: in a hybrid run over a tracking record created with all steps
\* pending, whenever overall_status is completed all five steps have status
\* completed
C27_CompletedMeansAllSteps ==
    \A r \in RunIds :
        (HasRecord(r) /\ RecordOf(r).overall_status = COMPLETED) =>
            \A s \in Steps : RecordOf(r).steps_status[s].status = COMPLETED

\* a hybrid run has completed the record it reports to
C27_Witness ==
    \E r \in RunIds :
        /\ HasRecord(r)
        /\ runs[r].pc = "returned"
        /\ RecordOf(r).overall_status = COMPLETED


\* C28: every update_step_status call that run_hybrid_agentic_analysis
\* issues is addressed to a request id for which a tracking record has
\* already been created, by the run or by its caller
C28_UpdatesHaveRecord ==
    [][\A r \in RunIds :
          (HybridEnter(r) \/ HybridFinish(r)) =>
              table[runs[r].tracking_id].exists]_vars


\* C29: once result_data of a record holds a non-empty pointer, no later
\* update_step_status call changes it; in particular the completion of
\* activating never sets it back to the empty string
C29_ResultDataKept ==
    [][\A id \in RequestIds, step \in Steps, status \in StepStatus :
          \A p \in {None, ResultPathOf(id)} :
             (/\ TrackerUpdateStep(id, step, status, p)
              /\ table[id].exists
              /\ table[id].result_data # "") =>
                table'[id].result_data = table[id].result_data]_vars


====
